---- MODULE Spec2Model ----
(***************************************************************************)
(* A model of moonsheep/views.py: the task store and entry store as the    *)
(* views read and write them, one action per request handler.              *)
(*                                                                         *)
(* AbstractTask.verify_and_save, AbstractTask.verified_manually and the    *)
(* Task manager (dirty, next_dirty) live in moonsheep/tasks.py and         *)
(* moonsheep/models.py; they are modelled from spec.md 4.3 and 4.4.        *)
(***************************************************************************)
EXTENDS Integers, Sequences, FiniteSets, TLC

(***************************************************************************)
(* Bounds of the model.                                                    *)
(***************************************************************************)
\* entries the stores hold at most in the workflow specifications
MaxEntries == 3
\* entries the stores hold at most in the selection-window specification
MaxWindowEntries == 2

(***************************************************************************)
(* Values.                                                                 *)
(***************************************************************************)
\* Python's None as a task id (no parent, no task chosen); real ids are >= 1
None_ == 0

OPEN == "open"
DIRTY == "dirty"
CHECKED == "checked"
MANUAL == "manual"
TaskStates == {OPEN, DIRTY, CHECKED, MANUAL}

Contributors == {"u1", "u2"}
Moderators == {"mod"}
\* canonical entry data, as the form or unpack_post hands it to _save_entry
Data == {"a", "b"}

VARIABLES
    tasks,      \* Task table: id -> [state, priority, doc, parent]
    entries,    \* Entry table in creation order: [task, user, data, closed_manually]
    hooks,      \* calls made to the Task Definition: id -> [verified, saved]
    inflight,   \* requests between Entry.save() and verification, per task
    request,    \* the QueryDict handed to unpack_post
    counter,    \* TaskView.__mocked_task_counter, shared by every request
    threads,    \* where each worker thread is in get_random_mocked_task_data
    result      \* what the last request returned or raised

vars == <<tasks, entries, hooks, inflight, request, counter, threads, result>>

TaskIds == DOMAIN tasks

NoResult == [kind |-> "none"]
NoRequest == <<>>

\* the worker threads of the development server
Threads == {"w1", "w2"}
\* a thread outside get_random_mocked_task_data
Idle == [pc |-> "idle", loaded |-> 0]

(***************************************************************************)
(* Stores.                                                                 *)
(***************************************************************************)
\* Task(...) as the importer creates it: state open (migration 0002's default)
Task(priority, doc, parent) ==
    [state |-> OPEN, priority |-> priority, doc |-> doc, parent |-> parent]

\* Entry(task_id=..., user=..., data=..., closed_manually=...)
Entry(t, u, d, cm) ==
    [task |-> t, user |-> u, data |-> d, closed_manually |-> cm]

\* the entries of one task in creation order, read from the entry table es
EntriesOf(t, es) == SelectSeq(es, LAMBDA e : e.task = t)

NoHooks == [verified |-> 0, saved |-> 0]

(***************************************************************************)
(* Task Definition (moonsheep/tasks.py), modelled from spec.md 4.3, 4.4.   *)
(***************************************************************************)
\* the agreement threshold of the task definitions modelled
Threshold == 2

\* compareEntries: pending below the threshold, agreed when every entry
\* carries the same data, disagreed otherwise
compareEntries(es) ==
    IF Len(es) < Threshold THEN "pending"
    ELSE IF \A i, j \in 1..Len(es) : es[i].data = es[j].data THEN "agreed"
    ELSE "disagreed"

\* onVerified(consensusData) and save(consensusData), one call each
InvokeHooks(t) ==
    hooks' = [hooks EXCEPT ![t] = [verified |-> @.verified + 1,
                                   saved |-> @.saved + 1]]

\* AbstractTask.verify_and_save(task_id): load every entry of the task from
\* the entry table es, decide, move the task and call the hooks
verify_and_save(t, es) ==
    LET outcome == compareEntries(EntriesOf(t, es)) IN
    CASE outcome = "pending" ->
            /\ UNCHANGED <<tasks, hooks>>
      [] outcome = "agreed" ->
            /\ tasks' = [tasks EXCEPT ![t].state = CHECKED]
            /\ InvokeHooks(t)
      [] outcome = "disagreed" ->
            /\ tasks' = [tasks EXCEPT ![t].state = DIRTY]
            /\ UNCHANGED hooks

\* AbstractTask.verified_manually(task_id, entry): the moderator's entry is
\* the trusted value; same commit path as automatic agreement
verified_manually(t) ==
    /\ tasks' = [tasks EXCEPT ![t].state = CHECKED]
    /\ InvokeHooks(t)

\* Task.objects.dirty(): the ids of the dirty tasks of the task table tks
dirty(tks) == {t \in DOMAIN tks : tks[t].state = DIRTY}

Min(S) == CHOOSE x \in S : \A y \in S : x <= y

\* Task.objects.dirty().only('id').first(): the dirty task of least id
first_dirty(tks) == IF dirty(tks) = {} THEN None_ ELSE Min(dirty(tks))

\* Task.objects.next_dirty(after_task): the dirty task of least id above it
next_dirty(after, tks) ==
    LET later == {t \in dirty(tks) : t > after} IN
    IF later = {} THEN None_ ELSE Min(later)

(***************************************************************************)
(* TaskView.                                                               *)
(***************************************************************************)
\* the size of the window choose_a_task draws from ([:20])
WindowSize == 20

\* Task.objects.filter(state=Task.OPEN).exclude(entry__user=request.user)
OpenNotEntered(u) ==
    {t \in TaskIds : /\ tasks[t].state = OPEN
                     /\ ~ \E i \in 1..Len(entries) :
                            entries[i].task = t /\ entries[i].user = u}

RECURSIVE DropLast(_, _)
\* what is left of S after its n last tasks in order_by('-priority') are
\* cut off; the order among tasks of equal priority is the database's
DropLast(S, n) ==
    IF n <= 0 \/ S = {} THEN {S}
    ELSE UNION {DropLast(S \ {m}, n - 1) :
                    m \in {x \in S : \A y \in S :
                                tasks[x].priority <= tasks[y].priority}}

\* ...order_by('-priority')[:20]: every window the query may return
TopWindow(S) == DropLast(S, Cardinality(S) - WindowSize)

\* choose_a_task with the exclude(entry__user=...) clause left out
choose_a_task_without_exclude(u) ==
    LET open == {t \in TaskIds : tasks[t].state = OPEN} IN
    IF open = {}
    THEN {[kind |-> "NoTasksLeft", user |-> u]}
    ELSE {[kind |-> "task", user |-> u, task |-> t] : t \in UNION TopWindow(open)}

\* TaskView.choose_a_task: every outcome the call may have for user u
choose_a_task(u) ==
    IF OpenNotEntered(u) = {}
    THEN {[kind |-> "NoTasksLeft", user |-> u]}
    ELSE {[kind |-> "task", user |-> u, task |-> t] :
            t \in UNION TopWindow(OpenNotEntered(u))}

\* TaskView.get: _get_task() without a task id chooses a task; NoTasksLeft
\* is caught and rendered as the no-tasks page
TaskView_get(u) ==
    /\ result' \in choose_a_task(u)
    /\ UNCHANGED <<tasks, entries, hooks, inflight, request, counter, threads>>

\* _save_entry that stores the entry and never runs the verification
TaskView_save_entry_unverified(u, t, d) ==
    /\ entries' = Append(entries, Entry(t, u, d, FALSE))
    /\ UNCHANGED <<tasks, hooks>>

\* _save_entry that runs the verification before the entry is stored
TaskView_save_entry_verify_first(u, t, d) ==
    /\ entries' = Append(entries, Entry(t, u, d, FALSE))
    /\ verify_and_save(t, entries)

\* TaskView._save_entry: Entry(...).save(), then verify_and_save(task_id)
TaskView_save_entry(u, t, d) ==
    /\ entries' = Append(entries, Entry(t, u, d, FALSE))
    /\ verify_and_save(t, entries')

\* post that never fetches the task: _save_entry whatever the task id
TaskView_post_unfetched(u, t, d) ==
    /\ TaskView_save_entry(u, t, d)
    /\ result' = [kind |-> "redirect", to |-> "task"]
    /\ UNCHANGED <<inflight, request, counter, threads>>

\* TaskView.post with _task_id = t: _get_task(t) is Task.objects.get(pk=t),
\* which raises DoesNotExist for an unknown id; then _save_entry and the
\* redirect to the next task
TaskView_post(u, t, d) ==
    IF t \notin TaskIds
    THEN /\ result' = [kind |-> "DoesNotExist"]
         /\ UNCHANGED <<tasks, entries, hooks, inflight, request, counter, threads>>
    ELSE /\ TaskView_save_entry(u, t, d)
         /\ result' = [kind |-> "redirect", to |-> "task"]
         /\ UNCHANGED <<inflight, request, counter, threads>>

(***************************************************************************)
(* ManualVerificationView.                                                 *)
(***************************************************************************)
\* the moderator's _save_entry storing an entry not marked closed manually
ManualVerificationView_save_entry_unmarked(m, t, d) ==
    /\ entries' = Append(entries, Entry(t, m, d, FALSE))
    /\ verified_manually(t)

\* the moderator's _save_entry without the call of verified_manually
ManualVerificationView_save_entry_unverified(m, t, d) ==
    /\ entries' = Append(entries, Entry(t, m, d, TRUE))
    /\ UNCHANGED <<tasks, hooks>>

\* ManualVerificationView._save_entry: the moderator's entry, closed
\* manually, then verified_manually(task_id, e)
ManualVerificationView_save_entry(m, t, d) ==
    /\ entries' = Append(entries, Entry(t, m, d, TRUE))
    /\ verified_manually(t)

\* get_success_url with last() for first(): without an after_task, the
\* dirty task of greatest id
get_success_url_last(after, tks) ==
    LET task == IF after # None_ THEN next_dirty(after, tks)
                ELSE IF dirty(tks) = {} THEN None_
                ELSE CHOOSE t \in dirty(tks) : \A x \in dirty(tks) : x <= t IN
    IF task # None_
    THEN [kind |-> "redirect", to |-> "ms-manual-verification", task_id |-> task]
    ELSE [kind |-> "redirect", to |-> "ms-admin"]

\* ManualVerificationView.get_success_url(after_task) over the task table
\* tks: the next dirty task's page, or the admin page
get_success_url(after, tks) ==
    LET task == IF after # None_ THEN next_dirty(after, tks)
                ELSE first_dirty(tks) IN
    IF task # None_
    THEN [kind |-> "redirect", to |-> "ms-manual-verification", task_id |-> task]
    ELSE [kind |-> "redirect", to |-> "ms-admin"]

\* ManualVerificationView.post: cancel, skip, or save through TaskView.post
ManualVerificationView_post(m, t, action, d) ==
    CASE action = "cancel" ->
            /\ result' = [kind |-> "redirect", to |-> "ms-admin"]
            /\ UNCHANGED <<tasks, entries, hooks, inflight, request, counter, threads>>
      [] action = "skip" ->
            /\ result' = get_success_url(t, tasks)
            /\ UNCHANGED <<tasks, entries, hooks, inflight, request, counter, threads>>
      [] action = "save" ->
            IF t \notin TaskIds
            THEN /\ result' = [kind |-> "DoesNotExist"]
                 /\ UNCHANGED <<tasks, entries, hooks, inflight, request, counter, threads>>
            ELSE /\ ManualVerificationView_save_entry(m, t, d)
                 /\ result' = get_success_url(None_, tasks')
                 /\ UNCHANGED <<inflight, request, counter, threads>>

(***************************************************************************)
(* The workflow: requests handled one at a time.                           *)
(***************************************************************************)
\* tasks of the workflow specification, all of one document, no parent
WorkflowTasks == [t \in {1, 2} |-> Task(100, 1, None_)]
Max(S) == CHOOSE x \in S : \A y \in S : x >= y
\* an id no task has
UnknownTask == Max(TaskIds) + 1

InitStores(tks) ==
    /\ tasks = tks
    /\ entries = <<>>
    /\ hooks = [t \in DOMAIN tks |-> NoHooks]
    /\ inflight = [t \in DOMAIN tks |-> [verify |-> 0, manual |-> 0]]
    /\ request = NoRequest
    /\ counter = 0
    /\ threads = [w \in Threads |-> Idle]
    /\ result = NoResult

Init == InitStores(WorkflowTasks)

Get == \E u \in Contributors : TaskView_get(u)

Post ==
    /\ Len(entries) < MaxEntries
    /\ \E u \in Contributors, t \in TaskIds \cup {UnknownTask}, d \in Data :
            TaskView_post(u, t, d)

ManualPost ==
    /\ Len(entries) < MaxEntries
    /\ \E m \in Moderators, t \in TaskIds \cup {UnknownTask},
          action \in {"cancel", "skip", "save"}, d \in Data :
            ManualVerificationView_post(m, t, action, d)

Next == Get \/ Post \/ ManualPost

Spec == Init /\ [][Next]_vars

(***************************************************************************)
(* The selection window: more open tasks than the window holds.            *)
(***************************************************************************)
\* priorities in hundredths (DecimalField, two places, 0.00 .. 1.00), with
\* ties inside the window and across its edge
WindowTasks ==
    [t \in 1..(WindowSize + 2) |->
        Task(IF t <= 3 THEN 25 ELSE IF t <= 12 THEN 50 ELSE 100, 1, None_)]

InitWindow == InitStores(WindowTasks)

\* the submissions that fill the stores before a selection: one contributor,
\* one answer (a task is checked once it has two of them)
PostWindow ==
    /\ Len(entries) < MaxWindowEntries
    /\ \E t \in TaskIds : TaskView_post("u1", t, "a")

\* a run ends with the selection it examines: a selection changes no store,
\* so every store is still reached with every selection made from it
NextWindow ==
    \/ result.kind # "task" /\ Get
    \/ result.kind # "task" /\ PostWindow

SpecWindow == InitWindow /\ [][NextWindow]_vars

\* the ordinary flow: a moderator commits, skips or cancels on the page of a
\* dirty task, the only pages the campaign view and get_success_url link to
ManualPostDirty ==
    /\ Len(entries) < MaxEntries
    /\ \E m \in Moderators, t \in dirty(tasks),
          action \in {"cancel", "skip", "save"}, d \in Data :
            ManualVerificationView_post(m, t, action, d)

NextOrdinary == Get \/ Post \/ ManualPostDirty

SpecOrdinary == Init /\ [][NextOrdinary]_vars

(***************************************************************************)
(* Concurrent requests: a worker may run between the two statements of     *)
(* _save_entry, which holds no lock and opens no transaction.              *)
(***************************************************************************)
\* TaskView._save_entry, first statement: Entry(...).save()
TaskView_save_entry_persist(u, t, d) ==
    /\ entries' = Append(entries, Entry(t, u, d, FALSE))
    /\ inflight' = [inflight EXCEPT ![t].verify = @ + 1]
    /\ UNCHANGED <<tasks, hooks, request, counter, threads, result>>

\* TaskView._save_entry, second statement: verify_and_save(task_id)
TaskView_save_entry_verify(t) ==
    /\ inflight[t].verify > 0
    /\ verify_and_save(t, entries)
    /\ inflight' = [inflight EXCEPT ![t].verify = @ - 1]
    /\ result' = [kind |-> "redirect", to |-> "task"]
    /\ UNCHANGED <<entries, request, counter, threads>>

\* ManualVerificationView._save_entry, first statement: e.save()
ManualVerificationView_save_entry_persist(m, t, d) ==
    /\ entries' = Append(entries, Entry(t, m, d, TRUE))
    /\ inflight' = [inflight EXCEPT ![t].manual = @ + 1]
    /\ UNCHANGED <<tasks, hooks, request, counter, threads, result>>

\* ManualVerificationView._save_entry, second statement: verified_manually
ManualVerificationView_save_entry_verify(t) ==
    /\ inflight[t].manual > 0
    /\ verified_manually(t)
    /\ inflight' = [inflight EXCEPT ![t].manual = @ - 1]
    /\ result' = get_success_url(None_, tasks')
    /\ UNCHANGED <<entries, request, counter, threads>>

InitConc == InitStores(WorkflowTasks)

PersistConc ==
    /\ Len(entries) < MaxEntries
    /\ \E u \in Contributors, t \in TaskIds, d \in Data :
            TaskView_save_entry_persist(u, t, d)

VerifyConc == \E t \in TaskIds : TaskView_save_entry_verify(t)

ManualPersistConc ==
    /\ Len(entries) < MaxEntries
    /\ \E m \in Moderators, t \in TaskIds, d \in Data :
            ManualVerificationView_save_entry_persist(m, t, d)

ManualVerifyConc == \E t \in TaskIds : ManualVerificationView_save_entry_verify(t)

NextConc == PersistConc \/ VerifyConc \/ ManualPersistConc \/ ManualVerifyConc

SpecConc == InitConc /\ [][NextConc]_vars

(***************************************************************************)
(* DocumentListView: the progress tree of one document.                    *)
(***************************************************************************)
\* tasks of the tree specification, at most
NumTreeTasks == 3

Documents == {1, 2}

RECURSIVE SortedSeq(_)
\* the ids of S in ascending order (order_by('id'))
SortedSeq(S) ==
    IF S = {} THEN <<>> ELSE <<Min(S)>> \o SortedSeq(S \ {Min(S)})

\* Task.objects.filter(doc_id=...).order_by('id')
DocTasks(doc) == SortedSeq({t \in TaskIds : tasks[t].doc = doc})

KeyError == [ok |-> FALSE]

\* the loop body with nodes.get(t.parent_id): a task whose parent is not
\* registered is left out of every children list
register_node_if_parent_known(acc, t) ==
    IF ~acc.ok THEN acc
    ELSE LET registered == [x \in DOMAIN acc.nodes \cup {t} |->
                               IF x = t THEN [task |-> t, children |-> <<>>]
                               ELSE acc.nodes[x]]
             parent == tasks[t].parent
         IN IF parent \notin DOMAIN registered
            THEN [ok |-> TRUE, nodes |-> registered]
            ELSE [ok |-> TRUE,
                  nodes |-> [registered EXCEPT
                                ![parent].children = Append(@, t)]]

\* the loop body of get_context_data: nodes[t.id] = node, then
\* nodes[t.parent_id]['children'].append(node), a KeyError when the parent
\* is not registered yet; children hold node references, here the ids
register_node(acc, t) ==
    IF ~acc.ok THEN acc
    ELSE LET registered == [x \in DOMAIN acc.nodes \cup {t} |->
                               IF x = t THEN [task |-> t, children |-> <<>>]
                               ELSE acc.nodes[x]]
             parent == tasks[t].parent
         IN IF parent \notin DOMAIN registered
            THEN KeyError
            ELSE [ok |-> TRUE,
                  nodes |-> [registered EXCEPT
                                ![parent].children = Append(@, t)]]

RECURSIVE build_nodes(_, _, _)
\* for t in tasks: ..., from the i-th task on
build_nodes(ts, i, acc) ==
    IF i > Len(ts) THEN acc
    ELSE build_nodes(ts, i + 1, register_node(acc, ts[i]))

\* nodes = {None: {'children': []}} and the loop over the document's tasks
progress_tree(doc) ==
    build_nodes(DocTasks(doc), 1,
        [ok |-> TRUE,
         nodes |-> [x \in {None_} |-> [task |-> None_, children |-> <<>>]]])

\* DocumentListView.get_context_data with GET parameter details_of = doc
\* (None_: the parameter is absent and no tree is built)
DocumentListView_get_context_data(doc) ==
    /\ result' =
          IF doc = None_ THEN [kind |-> "documents"]
          ELSE LET built == progress_tree(doc) IN
               IF built.ok
               THEN [kind |-> "progress_tree", doc |-> doc, nodes |-> built.nodes]
               ELSE [kind |-> "KeyError", doc |-> doc]
    /\ UNCHANGED <<tasks, entries, hooks, inflight, request, counter, threads>>

\* every task table of NumTreeTasks tasks over two documents; a parent is
\* any task of the table (the foreign key admits no other id) or none
InitTree ==
    \E tks \in [1..NumTreeTasks ->
                    {Task(100, doc, parent) :
                        doc \in Documents,
                        parent \in {None_} \cup (1..NumTreeTasks)}] :
        InitStores(tks)

DocumentList == \E doc \in Documents \cup {None_} : DocumentListView_get_context_data(doc)

NextTree == DocumentList

SpecTree == InitTree /\ [][NextTree]_vars

(***************************************************************************)
(* unpack_post: field names.                                               *)
(*                                                                         *)
(* A field name is a sequence of characters; a QueryDict is a sequence of  *)
(* [key, vals] in the order of keys(), each key once.                      *)
(***************************************************************************)
DigitChars == <<"0", "1", "2", "3", "4", "5", "6", "7", "8", "9">>
\* \d
Digits == {DigitChars[i] : i \in 1..Len(DigitChars)}
\* [\d\w\-_], over the letters the field names of the model use
NameChars == Digits \cup {"a", "b", "k", "o", "_", "-"}

IsDigits(seg) == Len(seg) >= 1 /\ \A i \in 1..Len(seg) : seg[i] \in Digits

RECURSIVE Run(_, _)
\* how many characters of k from position i on are name characters
Run(k, i) ==
    IF i <= Len(k) /\ k[i] \in NameChars THEN 1 + Run(k, i + 1) ELSE 0

NoMatch == [ok |-> FALSE]

RECURSIVE match_selectors(_, _, _)
\* (\[[\d\w\-_]+\])*(\[\])?$ matched against k from position i on
match_selectors(k, i, acc) ==
    IF i > Len(k)
    THEN [ok |-> TRUE, selectors |-> acc, trailing_brackets |-> FALSE]
    ELSE IF k[i] # "[" THEN NoMatch
    ELSE LET n == Run(k, i + 1) IN
         IF n >= 1 /\ i + n + 1 <= Len(k) /\ k[i + n + 1] = "]"
         THEN match_selectors(k, i + n + 2,
                              Append(acc, SubSeq(k, i + 1, i + n)))
         ELSE IF n = 0 /\ i + 1 = Len(k) /\ k[i + 1] = "]"
         THEN [ok |-> TRUE, selectors |-> acc, trailing_brackets |-> TRUE]
         ELSE NoMatch

\* the pattern cut down to its first group, not anchored at the end
field_name_match_object_only(k) ==
    IF Run(k, 1) = 0 THEN NoMatch
    ELSE [ok |-> TRUE, object |-> SubSeq(k, 1, Run(k, 1)),
          selectors |-> <<>>, trailing_brackets |-> FALSE]

\* re.search(r"^(?P<object>[\w\-_]+)(?P<selectors>(\[[\d\w\-_]+\])*)
\* (?P<trailing_brackets>\[\])?$", k)
field_name_match(k) ==
    LET n == Run(k, 1) IN
    IF n = 0 THEN NoMatch
    ELSE LET rest == match_selectors(k, n + 1, <<>>) IN
         IF ~rest.ok THEN NoMatch
         ELSE [ok |-> TRUE, object |-> SubSeq(k, 1, n),
               selectors |-> rest.selectors,
               trailing_brackets |-> rest.trailing_brackets]

\* the path of a matched field name, segment by segment (the code joins
\* them with '/', which no segment contains)
path_of(m) == <<m.object>> \o m.selectors

\* the paths a field name adds to convert_to_array_paths: the path before
\* every selector that re.match(r'\d+', idx) accepts, one beginning with a
\* digit
array_paths_of(m) ==
    {SubSeq(path_of(m), 1, j) : j \in {i \in 1..Len(m.selectors) :
                                        m.selectors[i][1] \in Digits}}

\* get_list_or_value with post.get(key) for post.getlist(key): the last
\* value only
get_list_or_value_last(vals, m) == [t |-> "str", v |-> vals[Len(vals)]]

\* get_list_or_value: post.getlist(key), a single element left single
\* unless the name ends in brackets
get_list_or_value(vals, m) ==
    IF Len(vals) = 1 /\ ~m.trailing_brackets
    THEN [t |-> "str", v |-> vals[1]]
    ELSE [t |-> "list",
          items |-> [i \in 1..Len(vals) |-> [t |-> "str", v |-> vals[i]]]]

(***************************************************************************)
(* unpack_post: the nested result.                                         *)
(*                                                                         *)
(* A value is a string [t = "str"], a list [t = "list"] or a dict          *)
(* [t = "dict"] keyed by segments; an exception is [t = "error"].          *)
(***************************************************************************)
Str(v) == [t |-> "str", v |-> v]
List(items) == [t |-> "list", items |-> items]
Dict(m) == [t |-> "dict", m |-> m]
Raise(e) == [t |-> "error", error |-> e]
EmptyDict == Dict(<<>>)

\* d[key] = val
dict_set(m, key, val) ==
    [x \in DOMAIN m \cup {key} |-> IF x = key THEN val ELSE m[x]]

DigitValue(c) == (CHOOSE i \in 1..Len(DigitChars) : DigitChars[i] = c) - 1

RECURSIVE digits_value(_, _)
\* the value of the digits of b, its underscores passed over, after acc
digits_value(b, acc) ==
    IF b = <<>> THEN acc
    ELSE IF Head(b) = "_" THEN digits_value(Tail(b), acc)
    ELSE digits_value(Tail(b), 10 * acc + DigitValue(Head(b)))

\* Python's int(s) on a segment: an optional sign, then digits, single
\* underscores allowed between digits; anything else is a ValueError
int_of(seg) ==
    LET negative == seg[1] = "-"
        b == IF negative THEN Tail(seg) ELSE seg
        wellformed ==
            /\ Len(b) >= 1
            /\ \A i \in 1..Len(b) : b[i] \in Digits \cup {"_"}
            /\ b[1] \in Digits /\ b[Len(b)] \in Digits
            /\ \A i \in 1..(Len(b) - 1) : ~(b[i] = "_" /\ b[i + 1] = "_")
    IN IF ~wellformed THEN [ok |-> FALSE]
       ELSE [ok |-> TRUE,
             val |-> IF negative THEN 0 - digits_value(b, 0)
                     ELSE digits_value(b, 0)]

RECURSIVE decimal(_)
decimal(n) ==
    IF n < 10 THEN <<DigitChars[n + 1]>>
    ELSE decimal(n \div 10) \o <<DigitChars[(n % 10) + 1]>>

\* Python's str(n) for an int
str_of(n) == IF n < 0 THEN <<"-">> \o decimal(0 - n) ELSE decimal(n)

\* the element a path segment selects in a value: a key of a dict, the
\* index of a list written as str(index); nothing in a string
HasChild(node, seg) ==
    CASE node.t = "dict" -> seg \in DOMAIN node.m
      [] node.t = "list" ->
            /\ IsDigits(seg)
            /\ str_of(int_of(seg).val) = seg
            /\ int_of(seg).val < Len(node.items)
      [] OTHER -> FALSE

Child(node, seg) ==
    IF node.t = "dict" THEN node.m[seg] ELSE node.items[int_of(seg).val + 1]

RECURSIVE dpath_new(_, _, _, _)
\* dpath.util.new(result, path, value): assign at the path, creating the
\* dicts on the way (segments stay strings: row[0][fld] gives
\* row {"0": {...}}); from segment i on, in node
dpath_new(node, path, i, value) ==
    IF node.t # "dict" THEN Raise("TypeError")
    ELSE IF i = Len(path) THEN Dict(dict_set(node.m, path[i], value))
    ELSE LET below == IF path[i] \in DOMAIN node.m THEN node.m[path[i]]
                      ELSE EmptyDict
             made == dpath_new(below, path, i + 1, value)
         IN IF made.t = "error" THEN made
            ELSE Dict(dict_set(node.m, path[i], made))

RECURSIVE dpath_get(_, _, _)
\* dpath.util.get(result, path): the one value at the path, a KeyError
\* when there is none; from segment i on, in node
dpath_get(node, path, i) ==
    IF i > Len(path) THEN node
    ELSE IF ~HasChild(node, path[i]) THEN Raise("KeyError")
    ELSE dpath_get(Child(node, path[i]), path, i + 1)

RECURSIVE dpath_set(_, _, _, _)
\* dpath.util.set(result, path, value): replace the value at an existing
\* path; from segment i on, in node
dpath_set(node, path, i, value) ==
    IF i > Len(path) THEN value
    ELSE IF ~HasChild(node, path[i]) THEN node
    ELSE LET made == dpath_set(Child(node, path[i]), path, i + 1, value) IN
         IF node.t = "dict" THEN Dict(dict_set(node.m, path[i], made))
         ELSE List([node.items EXCEPT ![int_of(path[i]).val + 1] = made])

RECURSIVE sorted_lookup(_, _)
\* for k_int in sorted(numeric_keys): arr.append(d[str(k_int)]), over the
\* keys of d still to be taken
sorted_lookup(m, keys) ==
    IF keys = {} THEN <<>>
    ELSE LET k == CHOOSE x \in keys :
                    \A y \in keys : int_of(x).val <= int_of(y).val
         IN <<m[str_of(int_of(k).val)]>> \o sorted_lookup(m, keys \ {k})

\* one turn of the loop over convert_to_array_paths
convert_to_array(res, path) ==
    LET d == dpath_get(res, path, 1) IN
    IF d.t = "error" THEN d
    ELSE IF d.t # "dict" THEN Raise("AttributeError")
    ELSE IF \E k \in DOMAIN d.m : ~int_of(k).ok THEN Raise("ValueError")
    ELSE IF \E k \in DOMAIN d.m : str_of(int_of(k).val) \notin DOMAIN d.m
    THEN Raise("KeyError")
    ELSE dpath_set(res, path, 1, List(sorted_lookup(d.m, DOMAIN d.m)))

RECURSIVE convert_all(_, _, _)
\* the loop over convert_to_array_paths, taken in the given order
convert_all(res, order, i) ==
    IF i > Len(order) \/ res.t = "error" THEN res
    ELSE convert_all(convert_to_array(res, order[i]), order, i + 1)

RECURSIVE insert_all(_, _, _)
\* the loop over post.keys(): acc is [res, paths], the result so far and
\* convert_to_array_paths
insert_all(post, i, acc) ==
    IF i > Len(post) \/ acc.res.t = "error" THEN acc
    ELSE LET m == field_name_match(post[i].key) IN
         IF ~m.ok
         THEN [res |-> Raise("Field name not valid"), paths |-> acc.paths]
         ELSE insert_all(post, i + 1,
                [res |-> dpath_new(acc.res, path_of(m), 1,
                                   get_list_or_value(post[i].vals, m)),
                 paths |-> acc.paths \cup array_paths_of(m)])

\* every order a set of paths may be iterated in
Orders(S) ==
    {o \in [1..Cardinality(S) -> S] :
        \A i, j \in 1..Cardinality(S) : i # j => o[i] # o[j]}

\* unpack_post(post): every outcome the call may have, one per order in
\* which the set convert_to_array_paths is iterated
unpack_post(post) ==
    LET filled == insert_all(post, 1, [res |-> EmptyDict, paths |-> {}]) IN
    IF filled.res.t = "error" THEN {filled.res}
    ELSE {convert_all(filled.res, o, 1) : o \in Orders(filled.paths)}

(***************************************************************************)
(* unpack_post on the forms a page may post.                               *)
(***************************************************************************)
MaxKeys == 2

RECURSIVE FieldName(_, _, _)
\* the field name object[s1][s2]..., with [] after it if trailing
FieldName(object, selectors, trailing) ==
    IF selectors = <<>>
    THEN IF trailing THEN object \o <<"[", "]">> ELSE object
    ELSE FieldName(object \o <<"[">> \o Head(selectors) \o <<"]">>,
                   Tail(selectors), trailing)

\* the selectors of the field names of the model: none, one or two, among
\* them indexes (0, 2, 10, 01), names (k) and names with digits in them
\* (-1, 1a)
Selectors ==
    LET i0 == <<"0">>
        i2 == <<"2">>
        i10 == <<"1", "0">>
        i01 == <<"0", "1">>
        k == <<"k">>
        m1 == <<"-", "1">>
        d1a == <<"1", "a">>
    IN {<<>>, <<i0>>, <<i2>>, <<i10>>, <<i01>>, <<k>>, <<m1>>, <<d1a>>,
        <<i0, k>>, <<i2, k>>, <<i0, i0>>, <<i0, i2>>, <<i2, i0>>, <<k, i0>>,
        <<k, k>>}

\* names the regular expression rejects
MalformedNames ==
    {<<"o", "[">>, <<"o", "[", "k", "]", "b">>,
     <<"o", "[", "]", "[", "k", "]">>, <<"[", "0", "]">>}

FieldNames ==
    {FieldName(<<"o">>, sel, tb) : sel \in Selectors, tb \in BOOLEAN}
        \cup MalformedNames

\* what a field is posted with: its own name as the one value, or that
\* and a second value
Values(k) == {<<k>>, <<k, <<"b">>>>}

IsPrefix(p, q) == Len(p) <= Len(q) /\ SubSeq(q, 1, Len(p)) = p

\* two well-formed names of which one addresses a value inside (or the
\* same as) the value the other addresses; what dpath makes of these is
\* not part of the model
Overlap(k1, k2) ==
    LET m1 == field_name_match(k1)
        m2 == field_name_match(k2)
    IN /\ m1.ok /\ m2.ok
       /\ \/ IsPrefix(path_of(m1), path_of(m2))
          \/ IsPrefix(path_of(m2), path_of(m1))

\* a posted field: post.getlist(key) is vals
Fields == UNION {{[key |-> k, vals |-> v] : v \in Values(k)} : k \in FieldNames}

\* the QueryDicts of up to max distinct names, in the order of keys(), each
\* with its values
Posts(max) ==
    UNION {{post \in [1..n -> Fields] :
              \A i, j \in 1..n : i # j =>
                  /\ post[i].key # post[j].key
                  /\ ~Overlap(post[i].key, post[j].key)} : n \in 1..max}

InitUnpack ==
    /\ tasks = WorkflowTasks
    /\ entries = <<>>
    /\ hooks = [t \in TaskIds |-> NoHooks]
    /\ inflight = [t \in TaskIds |-> [verify |-> 0, manual |-> 0]]
    /\ request \in Posts(MaxKeys)
    /\ counter = 0
    /\ threads = [w \in Threads |-> Idle]
    /\ result = NoResult

\* a view calls unpack_post(request.POST)
UnpackPost ==
    /\ result = NoResult
    /\ \E out \in unpack_post(request) :
          result' = IF out.t = "error"
                    THEN [kind |-> "error", error |-> out.error]
                    ELSE [kind |-> "unpacked", data |-> out]
    /\ UNCHANGED <<tasks, entries, hooks, inflight, request, counter, threads>>

NextUnpack == UnpackPost

SpecUnpack == InitUnpack /\ [][NextUnpack]_vars

(***************************************************************************)
(* The moderator's round: a table with several dirty tasks, the moderator  *)
(* skipping, saving and cancelling from page to page.                      *)
(***************************************************************************)
NumRoundTasks == 4

\* the entries that brought a task to its state, contributors handled one at
\* a time: none (open), two that differ (dirty), two that agree (checked)
EntriesTo(t, state) ==
    CASE state = OPEN -> <<>>
      [] state = DIRTY -> <<Entry(t, "u1", "a", FALSE), Entry(t, "u2", "b", FALSE)>>
      [] state = CHECKED -> <<Entry(t, "u1", "a", FALSE), Entry(t, "u2", "a", FALSE)>>

RECURSIVE EntriesUpTo(_, _)
EntriesUpTo(n, states) ==
    IF n = 0 THEN <<>>
    ELSE EntriesUpTo(n - 1, states) \o EntriesTo(n, states[n])

InitRound ==
    \E states \in [1..NumRoundTasks -> {OPEN, DIRTY, CHECKED}] :
        /\ tasks = [t \in 1..NumRoundTasks |->
                       [Task(100, 1, None_) EXCEPT !.state = states[t]]]
        /\ entries = EntriesUpTo(NumRoundTasks, states)
        /\ hooks = [t \in 1..NumRoundTasks |->
                       IF states[t] = CHECKED
                       THEN [verified |-> 1, saved |-> 1] ELSE NoHooks]
        /\ inflight = [t \in 1..NumRoundTasks |-> [verify |-> 0, manual |-> 0]]
        /\ request = NoRequest
        /\ counter = 0
        /\ threads = [w \in Threads |-> Idle]
        /\ result = NoResult

\* the page the moderator is on: the one the last response led to, or else
\* any dirty task opened from the admin page
ModeratorPages ==
    IF result.kind = "redirect" /\ result.to = "ms-manual-verification"
    THEN {result.task_id} ELSE dirty(tasks)

ModeratorPost ==
    \E m \in Moderators, t \in ModeratorPages,
       action \in {"cancel", "skip", "save"}, d \in Data :
        ManualVerificationView_post(m, t, action, d)

NextRound == ModeratorPost

SpecRound == InitRound /\ [][NextRound]_vars

RECURSIVE skip_round(_, _)
\* the task pages that skip after skip leads through, beginning with
\* get_success_url(after), up to the admin page
skip_round(after, tks) ==
    LET url == get_success_url(after, tks) IN
    IF url.to = "ms-admin" THEN <<>>
    ELSE <<url.task_id>> \o skip_round(url.task_id, tks)

(***************************************************************************)
(* The moderator's options: entries whose data are what unpack_post made   *)
(* of the posted form, and the page that lists them field by field.        *)
(***************************************************************************)
MaxOptionEntries == 2

\* the forms of the model: field o with one value or two, field k
OptionFields ==
    {[key |-> <<"o">>, vals |-> <<<<"x">>>>],
     [key |-> <<"o">>, vals |-> <<<<"y">>>>],
     [key |-> <<"o">>, vals |-> <<<<"x">>, <<"y">>>>],
     [key |-> <<"k">>, vals |-> <<<<"x">>>>]}

OptionPosts ==
    UNION {{post \in [1..n -> OptionFields] :
              \A i, j \in 1..n : i # j => post[i].key # post[j].key}
           : n \in 1..2}

\* values.add(value): a set takes strings, not lists or dicts
Hashable(value) == value.t = "str"

\* for fld, value in e.data.items(): the options after one entry's data
add_entry_options(fields, data) ==
    IF fields.t = "error" THEN fields
    ELSE IF \E fld \in DOMAIN data.m : ~Hashable(data.m[fld])
    THEN Raise("TypeError")
    ELSE Dict([fld \in DOMAIN fields.m \cup DOMAIN data.m |->
                 (IF fld \in DOMAIN fields.m THEN fields.m[fld] ELSE {})
                     \cup (IF fld \in DOMAIN data.m THEN {data.m[fld]} ELSE {})])

RECURSIVE collect_options(_, _, _)
\* for e in entries: ..., from entry i on
collect_options(es, i, fields) ==
    IF i > Len(es) THEN fields
    ELSE collect_options(es, i + 1, add_entry_options(fields, es[i].data))

\* ManualVerificationView.get_context_data for task t: every outcome, one
\* per order list(values) may give
get_context_data(t) ==
    LET fields == collect_options(EntriesOf(t, entries), 1, EmptyDict) IN
    IF fields.t = "error" THEN {[kind |-> "error", error |-> fields.error]}
    ELSE {[kind |-> "context", task |-> t, entries_data |-> ed] :
            ed \in {f \in [DOMAIN fields.m ->
                              UNION {Orders(fields.m[fld]) : fld \in DOMAIN fields.m}] :
                        \A fld \in DOMAIN fields.m : f[fld] \in Orders(fields.m[fld])}}

\* GET of the manual verification page of task t
ManualVerificationView_get(t) ==
    /\ IF t \notin TaskIds
       THEN result' = [kind |-> "DoesNotExist"]
       ELSE result' \in get_context_data(t)
    /\ UNCHANGED <<tasks, entries, hooks, inflight, request, counter, threads>>

\* a contributor posts a form of a task without a form class: the entry's
\* data is unpack_post(request.POST)
PostFields ==
    /\ Len(entries) < MaxOptionEntries
    /\ \E u \in Contributors, t \in TaskIds, post \in OptionPosts :
          \E data \in unpack_post(post) :
              data.t = "dict" /\ TaskView_post(u, t, data)

ManualGet == \E t \in TaskIds \cup {UnknownTask} : ManualVerificationView_get(t)

NextOptions == PostFields \/ ManualGet

SpecOptions == Init /\ [][NextOptions]_vars

(***************************************************************************)
(* Development rotation (DEV_ROTATE_TASKS): worker threads of one process  *)
(* in get_random_mocked_task_data, no task type asked for. A thread may    *)
(* be switched out between any two reads or writes of the class attribute. *)
(***************************************************************************)
\* len(registry.TASK_TYPES)
NumTaskTypes == 2

\* the model follows the counter up to here; past it no new request starts
MaxCounter == NumTaskTypes + 1

\* TaskView.__mocked_task_counter += 1, first half: read the attribute
rotate_load(w) ==
    /\ threads[w].pc = "idle"
    /\ counter < MaxCounter
    /\ threads' = [threads EXCEPT ![w] = [pc |-> "store", loaded |-> counter]]
    /\ UNCHANGED <<tasks, entries, hooks, inflight, request, counter, result>>

\* TaskView.__mocked_task_counter += 1, second half: write it back
rotate_store(w) ==
    /\ threads[w].pc = "store"
    /\ counter' = threads[w].loaded + 1
    /\ threads' = [threads EXCEPT ![w] = [pc |-> "check", loaded |-> 0]]
    /\ UNCHANGED <<tasks, entries, hooks, inflight, request, result>>

\* if TaskView.__mocked_task_counter >= len(defined_tasks)
rotate_check(w) ==
    /\ threads[w].pc = "check"
    /\ threads' = [threads EXCEPT ![w].pc =
                      IF counter >= NumTaskTypes THEN "reset" ELSE "use"]
    /\ UNCHANGED <<tasks, entries, hooks, inflight, request, counter, result>>

\* TaskView.__mocked_task_counter = 0
rotate_reset(w) ==
    /\ threads[w].pc = "reset"
    /\ counter' = 0
    /\ threads' = [threads EXCEPT ![w].pc = "use"]
    /\ UNCHANGED <<tasks, entries, hooks, inflight, request, result>>

\* task_type = defined_tasks[TaskView.__mocked_task_counter]
rotate_use(w) ==
    /\ threads[w].pc = "use"
    /\ result' = IF counter < NumTaskTypes
                 THEN [kind |-> "task_type", thread |-> w, index |-> counter]
                 ELSE [kind |-> "IndexError", thread |-> w, index |-> counter]
    /\ threads' = [threads EXCEPT ![w] = Idle]
    /\ UNCHANGED <<tasks, entries, hooks, inflight, request, counter>>

RotateLoad == \E w \in Threads : rotate_load(w)
RotateStore == \E w \in Threads : rotate_store(w)
RotateCheck == \E w \in Threads : rotate_check(w)
RotateReset == \E w \in Threads : rotate_reset(w)
RotateUse == \E w \in Threads : rotate_use(w)

NextRotate ==
    RotateLoad \/ RotateStore \/ RotateCheck \/ RotateReset \/ RotateUse

SpecRotate == Init /\ [][NextRotate]_vars

(***************************************************************************)
(* Claims.                                                                 *)
(***************************************************************************)
HasEntryBy(t, u) ==
    \E i \in 1..Len(entries) : entries[i].task = t /\ entries[i].user = u

\* the tasks a selection for u may draw from: open, not entered by u
Selectable(u) == {t \in TaskIds : tasks[t].state = OPEN /\ ~HasEntryBy(t, u)}

TwoSubmitted(t) ==
    LET es == EntriesOf(t, entries) IN
    /\ Len(es) = 2
    /\ ~es[1].closed_manually
    /\ ~es[2].closed_manually

\* C2: when two entry submissions for one task run concurrently, the save
\* hook is invoked at most once for the task over the whole run.
C2_SavedAtMostOnce ==
    \A t \in TaskIds : TwoSubmitted(t) => hooks[t].saved <= 1

\* C3: a task's state changes only along open->dirty, open->checked and
\* dirty->checked.
C3_ForwardOnly ==
    [][\A t \in TaskIds :
          tasks'[t].state # tasks[t].state =>
              <<tasks[t].state, tasks'[t].state>> \in
                  {<<OPEN, DIRTY>>, <<OPEN, CHECKED>>, <<DIRTY, CHECKED>>}]_vars

\* C4: once a task with threshold 2 has received two entries with identical
\* data through onEntrySubmitted, it is checked and the save hook has been
\* invoked exactly once for it.
C4_AgreementCheckedSavedOnce ==
    \A t \in TaskIds :
        LET es == EntriesOf(t, entries) IN
        (TwoSubmitted(t) /\ es[1].data = es[2].data) =>
            tasks[t].state = CHECKED /\ hooks[t].saved = 1

C4_Witness ==
    \E t \in TaskIds :
        LET es == EntriesOf(t, entries) IN
        /\ TwoSubmitted(t) /\ es[1].data = es[2].data
        /\ tasks[t].state = CHECKED

\* C5: once the first two entries of a task with threshold 2 differ, the
\* task is dirty after them, and until a moderator commits an entry it
\* stays dirty and the save hook is not invoked for it.
C5_DisagreementDirtyNoSave ==
    \A t \in TaskIds :
        LET es == EntriesOf(t, entries) IN
        (/\ Len(es) >= 2
         /\ ~es[1].closed_manually /\ ~es[2].closed_manually
         /\ es[1].data # es[2].data
         /\ \A i \in 1..Len(es) : ~es[i].closed_manually) =>
            tasks[t].state = DIRTY /\ hooks[t].saved = 0

\* a third contributor entry has arrived on a task whose first two differ
C5_Witness ==
    \E t \in TaskIds :
        LET es == EntriesOf(t, entries) IN
        /\ Len(es) = 3
        /\ es[1].data # es[2].data
        /\ \A i \in 1..3 : ~es[i].closed_manually
        /\ tasks[t].state = DIRTY

\* C6: an entry submitted for a task that is checked or manual is rejected:
\* no entry is stored, no hook runs, the task is unchanged.
C6_ClosedTaskRejectsEntry ==
    [][\A u \in Contributors, t \in TaskIds, d \in Data :
          (tasks[t].state \in {CHECKED, MANUAL} /\ TaskView_post(u, t, d)) =>
              (entries' = entries /\ tasks' = tasks /\ hooks' = hooks)]_vars

\* C7: a moderator commit on a task that is not dirty fails and leaves the
\* task's entries and the task's state unchanged.
C7_NotDirtyCommitRejected ==
    [][\A m \in Moderators, t \in TaskIds, d \in Data :
          (tasks[t].state # DIRTY
              /\ ManualVerificationView_post(m, t, "save", d)) =>
              (entries' = entries /\ tasks' = tasks)]_vars

\* the tasks loaded for a document
Loaded(doc) == {t \in TaskIds : tasks[t].doc = doc}

RECURSIVE ReachesRoot(_, _, _)
\* following parent references from t ends at no parent within n steps,
\* passing only through tasks of S
ReachesRoot(t, S, n) ==
    \/ t = None_
    \/ n > 0 /\ t \in S /\ ReachesRoot(tasks[t].parent, S, n - 1)

\* the tasks of the document form a forest: every parent is a task of the
\* document and no task is its own ancestor
ValidForest(doc) ==
    \A t \in Loaded(doc) : ReachesRoot(t, Loaded(doc), Cardinality(Loaded(doc)))

\* how often node t occurs in the children of node p
Occurrences(nodes, p, t) ==
    Cardinality({i \in 1..Len(nodes[p].children) : nodes[p].children[i] = t})

TreeRequested == result.kind \in {"progress_tree", "KeyError"}

\* C8: for the tasks of one document whose parent references form a valid
\* forest, whatever the order of ids, buildTaskTree yields one node per
\* task, each exactly once in the children of its parent's node (or of the
\* synthetic root) and in no other children.
C8_TreeIntegrity ==
    (TreeRequested /\ ValidForest(result.doc)) =>
        /\ result.kind = "progress_tree"
        /\ DOMAIN result.nodes = Loaded(result.doc) \cup {None_}
        /\ \A t \in Loaded(result.doc), p \in DOMAIN result.nodes :
              Occurrences(result.nodes, p, t) =
                  IF p = tasks[t].parent THEN 1 ELSE 0

\* some task loaded for the document names a parent that is not loaded
HasOrphan(doc) ==
    \E t \in Loaded(doc) :
        tasks[t].parent # None_ /\ tasks[t].parent \notin Loaded(doc)

\* C9: buildTaskTree fails and produces no tree whenever a loaded task
\* references a parent that is not loaded, and a tree it returns holds every
\* loaded task in some node's children.
C9_OrphanFails ==
    TreeRequested =>
        /\ HasOrphan(result.doc) => result.kind = "KeyError"
        /\ result.kind = "progress_tree" =>
              \A t \in Loaded(result.doc) :
                  \E p \in DOMAIN result.nodes :
                      Occurrences(result.nodes, p, t) >= 1

\* a tree was requested for a document that has an orphan among other
\* tasks, and the request failed
C9_Witness ==
    /\ result.kind = "KeyError"
    /\ HasOrphan(result.doc)
    /\ Cardinality(Loaded(result.doc)) >= 2

\* the well-formed names of a post
Matched(post) ==
    {field_name_match(post[i].key) : i \in {j \in 1..Len(post) :
                                            field_name_match(post[j].key).ok}}

\* a numeric bracket key (only digits) and a non-numeric one at the same
\* level under the same path
MixedLevel(post) ==
    \E m1, m2 \in Matched(post) :
        \E n \in 1..Len(m1.selectors) :
            /\ n <= Len(m2.selectors)
            /\ SubSeq(path_of(m1), 1, n) = SubSeq(path_of(m2), 1, n)
            /\ IsDigits(m1.selectors[n])
            /\ ~IsDigits(m2.selectors[n])

\* C10: whenever the input has a numeric bracket key and a non-numeric
\* bracket key at the same level under the same path, unpack_post fails with
\* an error and returns no result, whichever of the two comes first in
\* keys().
C10_MixedLevelFails ==
    (result.kind \in {"unpacked", "error"} /\ MixedLevel(request))
        => result.kind = "error"

\* every field of the post is o[i], with or without [] after it, i written
\* with digits only: one level, all of its bracket keys numeric
NumericLevel(post) ==
    \A i \in 1..Len(post) :
        LET m == field_name_match(post[i].key) IN
        m.ok /\ Len(m.selectors) = 1 /\ IsDigits(m.selectors[1])

\* the place of field i among the fields of a numeric level, by the numeric
\* value of the keys
Rank(post, i) ==
    LET val(j) == int_of(field_name_match(post[j].key).selectors[1]).val IN
    1 + Cardinality({j \in 1..Len(post) : val(j) < val(i)})

\* C11: for a level whose bracket keys are all numeric, unpack_post does not
\* fail and gives an array with exactly the values present at the level,
\* one per key, in ascending order of the keys' numeric value, missing
\* indices skipped.
C11_NumericLevelArray ==
    (result.kind \in {"unpacked", "error"} /\ NumericLevel(request)) =>
        /\ result.kind = "unpacked"
        /\ LET arr == result.data.m[<<"o">>] IN
           /\ arr.t = "list"
           /\ Len(arr.items) = Len(request)
           /\ \A i \in 1..Len(request) :
                 arr.items[Rank(request, i)] =
                     get_list_or_value(request[i].vals,
                                       field_name_match(request[i].key))

\* the page of the dirty task of least id among ids, the admin page if none
PageOfLeast(ids) ==
    IF ids = {} THEN [kind |-> "redirect", to |-> "ms-admin"]
    ELSE [kind |-> "redirect", to |-> "ms-manual-verification",
          task_id |-> CHOOSE t \in ids : \A x \in ids : t <= x]

\* a skip posted for task t leads to the dirty task of least id above t
SkipLeadsToNext ==
    \A m \in Moderators, t \in TaskIds, d \in Data :
        ManualVerificationView_post(m, t, "skip", d) =>
            result' = PageOfLeast({x \in TaskIds :
                                    tasks[x].state = DIRTY /\ x > t})

\* a save, which asks for no task in particular, leads to the dirty task of
\* least id
SaveLeadsToFirst ==
    \A m \in Moderators, t \in TaskIds, d \in Data :
        ManualVerificationView_post(m, t, "save", d) =>
            result' = PageOfLeast({x \in TaskIds : tasks'[x].state = DIRTY})

\* C12: get_success_url gives, for an after_task, the dirty task of least id
\* strictly above it and, with none, the dirty task of least id; skipping
\* on from the first dirty task therefore leads through every dirty task
\* once, in ascending order of id, and then to the admin page.
C12_NextDirtyRound ==
    /\ [](skip_round(None_, tasks) = SortedSeq({t \in TaskIds : tasks[t].state = DIRTY}))
    /\ [][SkipLeadsToNext /\ SaveLeadsToFirst]_vars

\* the moderator has skipped on to the last of three or more dirty tasks
C12_Witness ==
    /\ Cardinality(dirty(tasks)) >= 3
    /\ \A i \in 1..Len(entries) : ~entries[i].closed_manually
    /\ result = [kind |-> "redirect", to |-> "ms-manual-verification",
                 task_id |-> Max(dirty(tasks))]

\* C13: selecting a task for an identity fails with NoTasksLeft exactly when
\* no open task is without an entry by that identity, and the failing call
\* changes no task and no entry.
C13_NoTasksLeftWhenExhausted ==
    [][\A u \in Contributors :
          TaskView_get(u) =>
              /\ result'.kind = "NoTasksLeft" <=> Selectable(u) = {}
              /\ result'.kind = "NoTasksLeft" =>
                    (tasks' = tasks /\ entries' = entries /\ hooks' = hooks)]_vars

\* a selection has failed for an identity that has entered every task still
\* open
C13_Witness ==
    /\ result.kind = "NoTasksLeft"
    /\ Selectable(result.user) = {}
    /\ \E t \in TaskIds : tasks[t].state = OPEN /\ HasEntryBy(t, result.user)

\* C14: a moderator commit on a dirty task adds exactly one entry, closed
\* manually and carrying the chosen data, moves the task to checked and
\* invokes the onVerified and save hooks once, leaving other tasks alone.
C14_CommitOnDirty ==
    [][\A m \in Moderators, t \in TaskIds, d \in Data :
          (tasks[t].state = DIRTY
              /\ ManualVerificationView_post(m, t, "save", d)) =>
              /\ entries' = Append(entries, Entry(t, m, d, TRUE))
              /\ tasks'[t].state = CHECKED
              /\ hooks'[t].verified = hooks[t].verified + 1
              /\ hooks'[t].saved = hooks[t].saved + 1
              /\ \A x \in TaskIds \ {t} :
                    tasks'[x] = tasks[x] /\ hooks'[x] = hooks[x]]_vars

\* a dirty task has been closed by the moderator: its last entry is the
\* moderator's, after two contributor entries that differ
C14_Witness ==
    \E t \in TaskIds :
        LET es == EntriesOf(t, entries) IN
        /\ Len(es) = 3
        /\ es[1].data # es[2].data
        /\ es[3].closed_manually
        /\ tasks[t].state = CHECKED
        /\ hooks[t] = [verified |-> 1, saved |-> 1]

\* the field names occurring in some entry of task t
FieldsOf(t) ==
    UNION {DOMAIN EntriesOf(t, entries)[i].data.m :
              i \in 1..Len(EntriesOf(t, entries))}

\* the values that some entry of task t holds for a field
ValuesOf(t, fld) ==
    {EntriesOf(t, entries)[i].data.m[fld] :
        i \in {j \in 1..Len(EntriesOf(t, entries)) :
                  fld \in DOMAIN EntriesOf(t, entries)[j].data.m}}

\* C15: the manual verification page of a task lists, for exactly the field
\* names occurring in some entry of the task, exactly the values some entry
\* holds for the field, each distinct value once.
C15_OptionsPerField ==
    [][\A t \in TaskIds :
          ManualVerificationView_get(t) =>
              /\ result'.kind = "context"
              /\ DOMAIN result'.entries_data = FieldsOf(t)
              /\ \A fld \in FieldsOf(t) :
                    LET listed == result'.entries_data[fld] IN
                    /\ {listed[j] : j \in 1..Len(listed)} = ValuesOf(t, fld)
                    /\ Len(listed) = Cardinality(ValuesOf(t, fld))]_vars

\* the step stores one new entry, closed_manually as given, and leaves the
\* entries there were as they are
StoresOne(closed) ==
    /\ Len(entries') = Len(entries) + 1
    /\ SubSeq(entries', 1, Len(entries)) = entries
    /\ entries'[Len(entries')].closed_manually = closed

\* C16: an entry has closed_manually = true if and only if a moderator
\* commit created it; an entry a contributor's submission created has
\* closed_manually = false, and no later step changes it.
C16_ClosedManuallyIffModerator ==
    [][/\ \A m \in Moderators, t \in TaskIds, d \in Data :
             ManualVerificationView_post(m, t, "save", d) => StoresOne(TRUE)
       /\ \A u \in Contributors, t \in TaskIds, d \in Data :
             TaskView_post(u, t, d) => StoresOne(FALSE)
       /\ Len(entries') >= Len(entries)
       /\ SubSeq(entries', 1, Len(entries)) = entries]_vars

\* a contributor's entry and, after it, a moderator's
C16_Witness ==
    \E i, j \in 1..Len(entries) :
        /\ i < j
        /\ ~entries[i].closed_manually /\ entries[i].user \in Contributors
        /\ entries[j].closed_manually /\ entries[j].user \in Moderators

\* every field name of the post is well formed and none of its bracket keys
\* consists solely of digits
NoIndexKeys(post) ==
    \A i \in 1..Len(post) :
        LET m == field_name_match(post[i].key) IN
        m.ok /\ \A n \in 1..Len(m.selectors) : ~IsDigits(m.selectors[n])

\* C17: a bracket key with any non-digit character in it, one that starts
\* with a digit included, is an object field: the call does not fail and
\* every level stays an object keyed by the keys as written, the value at
\* the end of each path.
C17_NonDigitKeysAreFields ==
    (result.kind \in {"unpacked", "error"} /\ NoIndexKeys(request)) =>
        /\ result.kind = "unpacked"
        /\ \A i \in 1..Len(request) :
              LET m == field_name_match(request[i].key) IN
              /\ \A n \in 1..Len(m.selectors) :
                    dpath_get(result.data, SubSeq(path_of(m), 1, n), 1).t = "dict"
              /\ dpath_get(result.data, path_of(m), 1) =
                    get_list_or_value(request[i].vals, m)

\* the names of the path grammar: name, name[k1][k2]..., [] after it or not
GrammarNames ==
    {FieldName(<<"o">>, sel, tb) : sel \in Selectors, tb \in BOOLEAN}

\* C18: unpack_post fails with the error for a field name that is not valid,
\* returning nothing, whenever some key of the input is not a name of the
\* path grammar, and does not raise that error when every key is one.
C18_MalformedNameFails ==
    result.kind \in {"unpacked", "error"} =>
        ((\E i \in 1..Len(request) : request[i].key \notin GrammarNames)
            <=> result = [kind |-> "error", error |-> "Field name not valid"])

\* the call failed on a malformed name that came after a well-formed one
C18_Witness ==
    /\ result = [kind |-> "error", error |-> "Field name not valid"]
    /\ Len(request) = 2
    /\ request[1].key \in GrammarNames
    /\ request[2].key \in MalformedNames

\* nothing is written: no entry stored, no task changed, no hook called
NothingWritten == entries' = entries /\ tasks' = tasks /\ hooks' = hooks

\* C19: submitting for, or fetching, a task id that no task has fails with
\* the error for a task not found (Task.DoesNotExist) before anything is
\* written.
C19_UnknownTaskFails ==
    [][\A t \in {UnknownTask} :
          /\ \A u \in Contributors, d \in Data :
                TaskView_post(u, t, d) =>
                    (result'.kind = "DoesNotExist" /\ NothingWritten)
          /\ \A m \in Moderators, d \in Data :
                ManualVerificationView_post(m, t, "save", d) =>
                    (result'.kind = "DoesNotExist" /\ NothingWritten)
          /\ ManualVerificationView_get(t) =>
                    (result'.kind = "DoesNotExist" /\ NothingWritten)]_vars

\* a request for an unknown task has failed with entries already stored
C19_Witness ==
    /\ result.kind = "DoesNotExist"
    /\ entries # <<>>

\* the flat key set of a post, order ignored: each path with the value
\* posted for it
KeySet(post) ==
    {[path |-> path_of(field_name_match(post[i].key)),
      value |-> get_list_or_value(post[i].vals, field_name_match(post[i].key))] :
        i \in 1..Len(post)}

\* every name well formed, no level with a numeric and a non-numeric key
WellFormedUnmixed(post) ==
    /\ \A i \in 1..Len(post) : field_name_match(post[i].key).ok
    /\ ~MixedLevel(post)

\* the posts of as many fields as post has, under any names of the model,
\* with the values post has
Relabelled(post) ==
    {other \in [1..Len(post) ->
                    [key : GrammarNames,
                     vals : {post[i].vals : i \in 1..Len(post)}]] :
        \A i, j \in 1..Len(post) : i # j =>
            /\ other[i].key # other[j].key
            /\ ~Overlap(other[i].key, other[j].key)}

\* C20: for a well-formed key set without mixing, flattening the output of
\* unpack_post gives back an equivalent key set; so no other such key set,
\* different in a path or a value, has the same output.
C20_RoundTrip ==
    (result.kind = "unpacked" /\ WellFormedUnmixed(request)) =>
        \A other \in Relabelled(request) :
            (WellFormedUnmixed(other) /\ result.data \in unpack_post(other))
                => KeySet(other) = KeySet(request)

\* every name is well formed, every bracket key is either a number as
\* str(int) writes it or begins with no digit, no level mixes the two, and
\* some name has numeric keys at two nested levels
NestedNumeric(post) ==
    /\ WellFormedUnmixed(post)
    /\ \A m \in Matched(post) : \A n \in 1..Len(m.selectors) :
          IF IsDigits(m.selectors[n])
          THEN str_of(int_of(m.selectors[n]).val) = m.selectors[n]
          ELSE m.selectors[n][1] \notin Digits
    /\ \E m \in Matched(post) : \E n \in 1..(Len(m.selectors) - 1) :
          IsDigits(m.selectors[n]) /\ IsDigits(m.selectors[n + 1])

\* the place, from 0, of the n-th bracket key of m among the numeric keys of
\* its level in the post
PlaceAt(post, m, n) ==
    Cardinality({int_of(o.selectors[n]).val :
        o \in {x \in Matched(post) :
                  /\ Len(x.selectors) >= n
                  /\ SubSeq(path_of(x), 1, n) = SubSeq(path_of(m), 1, n)
                  /\ int_of(x.selectors[n]).val < int_of(m.selectors[n]).val}})

\* where the value of field m is in the output: numeric keys replaced by
\* their places in the arrays
ArrayPath(post, m) ==
    <<m.object>> \o
        [n \in 1..Len(m.selectors) |->
            IF IsDigits(m.selectors[n]) THEN str_of(PlaceAt(post, m, n))
            ELSE m.selectors[n]]

\* C21: with numeric bracket keys at two nested levels, unpack_post makes
\* an array, ordered by numeric key, of every such level, and gives that
\* one result in whatever order the recorded paths are converted, sparse
\* outer indices included.
C21_NestedLevelsAnyOrder ==
    (result.kind \in {"unpacked", "error"} /\ NestedNumeric(request)) =>
        /\ result.kind = "unpacked"
        /\ unpack_post(request) = {result.data}
        /\ \A i \in 1..Len(request) :
              LET m == field_name_match(request[i].key)
                  at == ArrayPath(request, m)
              IN /\ dpath_get(result.data, at, 1) =
                        get_list_or_value(request[i].vals, m)
                 /\ \A n \in 1..Len(m.selectors) :
                       dpath_get(result.data, SubSeq(at, 1, n), 1).t =
                           IF IsDigits(m.selectors[n]) THEN "list" ELSE "dict"

\* the name ends in []
EndsInBrackets(k) == Len(k) >= 2 /\ k[Len(k) - 1] = "[" /\ k[Len(k)] = "]"

\* C22: unpack_post stores for each key, at the key's path, the sequence of
\* all the values submitted, in order, when the key has more than one value
\* or ends in [], and the single string when it has one value and no [];
\* no value of a repeated key is dropped.
C22_ListOrSingleValue ==
    (result.kind = "unpacked" /\ WellFormedUnmixed(request)) =>
        \A i \in 1..Len(request) :
            LET vals == request[i].vals
                stored == dpath_get(result.data,
                              ArrayPath(request, field_name_match(request[i].key)), 1)
            IN IF Len(vals) > 1 \/ EndsInBrackets(request[i].key)
               THEN /\ stored.t = "list"
                    /\ Len(stored.items) = Len(vals)
                    /\ \A j \in 1..Len(vals) :
                          stored.items[j] = [t |-> "str", v |-> vals[j]]
               ELSE stored = [t |-> "str", v |-> vals[1]]

\* a key posted twice without brackets next to a key with brackets posted
\* once
C22_Witness ==
    /\ result.kind = "unpacked"
    /\ WellFormedUnmixed(request)
    /\ \E i, j \in 1..Len(request) :
          /\ Len(request[i].vals) = 2 /\ ~EndsInBrackets(request[i].key)
          /\ Len(request[j].vals) = 1 /\ EndsInBrackets(request[j].key)

\* C23: in development rotation, under any interleaving of concurrent
\* requests, the shared counter is within 0..n-1 when it is used to index
\* the list of the n task types: the lookup never goes out of range.
C23_CounterInRangeAtUse ==
    result.kind \in {"task_type", "IndexError"} =>
        /\ result.kind = "task_type"
        /\ result.index \in 0..(NumTaskTypes - 1)

====
